---- MODULE Spec2Model ----
(***************************************************************************)
(* Model of hemeroteca: the lexical relevance scorer (src/relevance.rs),   *)
(* the fan-out/fan-in orchestrators, top-k selection, the feed reader, the *)
(* feedback scorer and the content fetch (src/lib.rs), the errors and the  *)
(* bag of words (src/common.rs), the database and the CSV file             *)
(* (src/storage.rs).                                                       *)
(*                                                                         *)
(* Representation                                                          *)
(*   String          a sequence of one-character strings                   *)
(*   Option<T>       <<>> for None, <<x>> for Some(x)                      *)
(*   u64             a natural number (the scores of the model are far     *)
(*                   from 2^64, no addition wraps)                         *)
(***************************************************************************)
EXTENDS Integers, Sequences, FiniteSets, TLC

VARIABLES
    root_words_file,  \* Option<String>: content of ~/.hemeroteca/root_words.txt
    news_item,        \* scoring: the NewsItem handed to the scorer
    core,             \* scoring: Option of the tuple of calculate_relevance_core
    relevance,        \* scoring: Option of the Relevance of calculate_relevance
    op,               \* the function that was called
    input,            \* the caller's vector at the time of the call
    news_items,       \* the caller's vector (popped from, or updated in place)
    k,                \* the top-k parameter
    tasks,            \* let tasks = news_items.len()
    idx,              \* position of the iterator of the spawning loop
    handles,          \* the JoinHandles in creation order, each with its unit
    joined,           \* number of handles the joining loop has awaited
    out,              \* the vector the joining loop pushes to
    pc,               \* "running", "returned", "done" or "panicked"
    ret,              \* the value returned
    unsorted,         \* ordering: the vector handed to a sorting function
    sorter,           \* ordering: the function that sorted it
    sorted_items,     \* ordering: Option of the vector after sort_by
    feed_urls,        \* fetch: the urls to read
    opt_in,           \* fetch: the opt-in terms
    operator,         \* fetch: Operator::AND or Operator::OR
    channels,         \* fetch: per url "pending" or the Option<Channel> read
    fetched,          \* fetch: Option of the value returned
    embeddings,       \* feedback: the embeddings of the title and of the bow
    corpus,           \* feedback: the slice of FeedbackRecords
    threshold,        \* feedback: similarity_threshold as <<num, den>>
    title_relevance,  \* feedback: Option of the title estimate
    bow_relevance,    \* feedback: Option of the bag-of-words estimate
    item_relevance,   \* feedback: Option of the value returned
    pipeline_error,   \* errors: Option of the PipelineError converted
    error_string,     \* errors: Option of the String of as_string
    parsed,           \* errors: Option of the Result of from_str
    bag_of_words,     \* bow: Option of the String of get_bow
    response,         \* content: what the network and the cleaning yield
    fill_pc,          \* content: "idle", "called" or "returned"
    csv_file,         \* csv: Option of the rows of the file (None: no file)
    csv_calls,        \* csv: the slices written, in call order
    table,            \* db: the rows of news_item in insertion order
    batches,          \* db: the vectors passed to insert_news_items
    counts,           \* db: the value each call returned
    queried           \* db: Option of the vector of query_all

scoring_vars == <<news_item, core, relevance>>
call_vars == <<op, input, news_items, k, tasks, idx, handles, joined, out, pc, ret>>
order_vars == <<unsorted, sorter, sorted_items>>
fetch_vars == <<feed_urls, opt_in, operator, channels, fetched>>
feedback_vars ==
    <<embeddings, corpus, threshold, title_relevance, bow_relevance, item_relevance>>
error_vars == <<pipeline_error, error_string, parsed>>
content_vars == <<bag_of_words, response, fill_pc>>
csv_vars == <<csv_file, csv_calls>>
db_vars == <<table, batches, counts, queried>>
storage_vars == <<error_vars, content_vars, csv_vars, db_vars>>
\* the parts that do not run while an orchestrator or the lexical scorer does
idle_vars == <<order_vars, fetch_vars, feedback_vars, storage_vars>>
vars ==
    <<root_words_file, scoring_vars, call_vars, order_vars, fetch_vars, feedback_vars,
      storage_vars>>

None == <<>>
Some(x) == <<x>>
is_some(o) == o # <<>>
is_none(o) == o = <<>>
unwrap(o) == o[1]

(***************************************************************************)
(* Strings                                                                 *)
(***************************************************************************)
\* char::is_whitespace, on the characters of the model
Whitespace == {" ", "\n", "\t"}
is_whitespace(c) == c \in Whitespace

\* the index of the first element of s that is in S, 0 when there is none
FirstIn(s, S) ==
    IF \E i \in 1..Len(s) : s[i] \in S
    THEN CHOOSE i \in 1..Len(s) : s[i] \in S /\ \A j \in 1..(i - 1) : s[j] \notin S
    ELSE 0

\* the index of the first element of s that is not in S, 0 when there is none
FirstNotIn(s, S) ==
    IF \E i \in 1..Len(s) : s[i] \notin S
    THEN CHOOSE i \in 1..Len(s) : s[i] \notin S /\ \A j \in 1..(i - 1) : s[j] \in S
    ELSE 0

\* str::split(","): every separator ends a token, empty tokens are kept, and
\* the empty string gives one empty token
RECURSIVE split(_, _)
split(s, sep) ==
    LET i == FirstIn(s, {sep})
    IN  IF i = 0 THEN <<s>>
        ELSE <<SubSeq(s, 1, i - 1)>> \o split(SubSeq(s, i + 1, Len(s)), sep)

\* str::split_whitespace: the maximal runs of non-whitespace characters
RECURSIVE split_whitespace(_)
split_whitespace(s) ==
    LET b == FirstNotIn(s, Whitespace)
    IN  IF b = 0 THEN <<>>
        ELSE LET rest == SubSeq(s, b, Len(s))
                 e == FirstIn(rest, Whitespace)
             IN  IF e = 0 THEN <<rest>>
                 ELSE <<SubSeq(rest, 1, e - 1)>> \o split_whitespace(SubSeq(rest, e, Len(rest)))

(***************************************************************************)
(* Vocabulary matcher                                                      *)
(***************************************************************************)
\* DICE_COEFFICIENT = 0.75 as the ratio DICE_NUM / DICE_DEN
DICE_NUM == 3
DICE_DEN == 4

\* The built-in root words that a word of the model's texts can be close to;
\* the other root words share no bigram with any of them.
ROOT_WORDS ==
    { <<"W", "a", "r">>, <<"L", "a", "w">>, <<"L", "e", "y">>, <<"C", "a", "o", "s">> }

\* the built-in words plus the whitespace-separated words of the user's file
get_combined_root_words ==
    LET additional_words ==
            IF is_some(root_words_file)
            THEN { split_whitespace(unwrap(root_words_file))[i] :
                       i \in 1..Len(split_whitespace(unwrap(root_words_file))) }
            ELSE {}
    IN  additional_words \cup ROOT_WORDS

bigrams(s) == [i \in 1..(Len(s) - 1) |-> <<s[i], s[i + 1]>>]

RemoveAt(s, i) == SubSeq(s, 1, i - 1) \o SubSeq(s, i + 1, Len(s))

\* size of the multiset intersection: each bigram of b consumes one equal
\* bigram of a that is still available
RECURSIVE intersection_size(_, _)
intersection_size(a_bigrams, b_bigrams) ==
    IF b_bigrams = <<>> THEN 0
    ELSE LET i == FirstIn(a_bigrams, {Head(b_bigrams)})
         IN  IF i = 0 THEN intersection_size(a_bigrams, Tail(b_bigrams))
             ELSE 1 + intersection_size(RemoveAt(a_bigrams, i), Tail(b_bigrams))

\* strsim::sorensen_dice(a, b) >= num / den, in exact arithmetic
sorensen_dice_at_least(a0, b0, num, den) ==
    LET a == SelectSeq(a0, LAMBDA c : ~is_whitespace(c))
        b == SelectSeq(b0, LAMBDA c : ~is_whitespace(c))
    IN  IF a = b THEN num <= den
        ELSE IF Len(a) < 2 \/ Len(b) < 2 THEN num <= 0
        ELSE den * 2 * intersection_size(bigrams(a), bigrams(b))
                 >= num * (Len(a) + Len(b) - 2)

similar_to_root_word(word, num, den) ==
    \E root \in get_combined_root_words : sorensen_dice_at_least(root, word, num, den)

(***************************************************************************)
(* Lexical relevance scorer                                                *)
(***************************************************************************)
\* weighted_matches adding the weight once when any token matches
weighted_matches_once(tokens, weight) ==
    IF \E i \in 1..Len(tokens) : similar_to_root_word(tokens[i], DICE_NUM, DICE_DEN)
    THEN weight ELSE 0

\* the "for x in tokens { if similar { relevance += weight } }" loops
RECURSIVE weighted_matches(_, _)
weighted_matches(tokens, weight) ==
    IF tokens = <<>> THEN 0
    ELSE (IF similar_to_root_word(Head(tokens), DICE_NUM, DICE_DEN) THEN weight ELSE 0)
         + weighted_matches(Tail(tokens), weight)

\* the five components calculate_relevance_core computes for an item without
\* an error
relevance_by_fields(item) ==
    LET relevance_by_creator == IF Len(item.creators) > 0 THEN 10 ELSE 0
        relevance_by_categories ==
            IF is_some(item.categories)
            THEN weighted_matches(split(unwrap(item.categories), ","), 5)
            ELSE 0
        relevance_by_keywords ==
            IF is_some(item.keywords)
            THEN weighted_matches(split(unwrap(item.keywords), ","), 5)
            ELSE 0
        relevance_by_title ==
            IF Len(item.title) > 0
            THEN weighted_matches(split_whitespace(item.title), 10)
            ELSE 0
        relevance_by_description ==
            IF Len(item.description) > 0
            THEN weighted_matches(split_whitespace(item.description), 1)
            ELSE 0
    IN  <<FALSE, relevance_by_creator, relevance_by_categories, relevance_by_keywords,
          relevance_by_title, relevance_by_description>>

\* calculate_relevance_core that flags the error but still scores the fields
calculate_relevance_core_scoring_errors(item) ==
    [relevance_by_fields(item) EXCEPT ![1] = is_some(item.error)]

\* (error, by_creator, by_categories, by_keywords, by_title, by_description)
calculate_relevance_core(item) ==
    IF is_some(item.error) THEN <<TRUE, 0, 0, 0, 0, 0>>
    ELSE relevance_by_fields(item)

\* Relevance::new; explanation keeps the five numbers build_explanation prints,
\* elapsed_time (a wall-clock reading) is left out
Relevance_new(relevance_core, relevance_content) ==
    [ error |-> relevance_core[1],
      relevance_core |-> relevance_core[2] + relevance_core[3] + relevance_core[4]
                         + relevance_core[5] + relevance_core[6],
      relevance_content |-> relevance_content,
      explanation |-> <<relevance_core[2], relevance_core[3], relevance_core[4],
                        relevance_core[5], relevance_core[6]>> ]

\* net_relevance leaving the body-text component out
net_relevance_core_only(r) == r.relevance_core

net_relevance(r) == r.relevance_core + r.relevance_content

\* the body-text pass of calculate_relevance
relevance_by_content(item) ==
    IF is_some(item.clean_content)
    THEN weighted_matches(split_whitespace(unwrap(item.clean_content)), 1)
    ELSE 0

\* calculate_relevance running the body-text pass on an item with an error too
calculate_relevance_scoring_errors(item) ==
    Relevance_new(calculate_relevance_core(item), relevance_by_content(item))

calculate_relevance(item) ==
    LET relevance_core == calculate_relevance_core(item)
    IN  IF relevance_core[1] THEN Relevance_new(relevance_core, 0)
        ELSE Relevance_new(relevance_core, relevance_by_content(item))

(***************************************************************************)
(* f64 relevance values                                                    *)
(***************************************************************************)
\* an f64 relevance x is the integer x * F64_ONE; a quotient is truncated
F64_ONE == 1000

Max(a, b) == IF a >= b THEN a ELSE b

RECURSIVE SumSeq(_)
SumSeq(s) == IF s = <<>> THEN 0 ELSE Head(s) + SumSeq(Tail(s))

\* the finite f64 values are -F64_MAX..F64_MAX; the three values beyond them
\* stand for the non-finite ones
F64_MAX == 1000 * F64_ONE
INFINITY == F64_MAX + 1
NEG_INFINITY == 0 - INFINITY
NAN == F64_MAX + 2

is_nan(x) == x = NAN
is_infinite(x) == x = INFINITY \/ x = NEG_INFINITY

\* f64 addition
f64_add(a, b) ==
    IF is_nan(a) \/ is_nan(b) THEN NAN
    ELSE IF is_infinite(a) /\ is_infinite(b) THEN (IF a = b THEN a ELSE NAN)
    ELSE IF is_infinite(a) THEN a
    ELSE IF is_infinite(b) THEN b
    ELSE IF a + b > F64_MAX THEN INFINITY
    ELSE IF a + b < 0 - F64_MAX THEN NEG_INFINITY
    ELSE a + b

\* f64 division by a positive count
f64_div(a, n) == IF is_nan(a) \/ is_infinite(a) THEN a ELSE a \div n

\* Iterator::sum::<f64>()
RECURSIVE f64_sum(_)
f64_sum(s) ==
    IF s = <<>> THEN 0 ELSE f64_add(f64_sum(SubSeq(s, 1, Len(s) - 1)), s[Len(s)])

(***************************************************************************)
(* Bag of words and embeddings                                             *)
(***************************************************************************)
UpperToLower == ("W" :> "w") @@ ("L" :> "l") @@ ("T" :> "t") @@ ("A" :> "a")

to_lowercase(s) ==
    [i \in 1..Len(s) |-> IF s[i] \in DOMAIN UpperToLower THEN UpperToLower[s[i]] ELSE s[i]]

\* NewsItem::get_bow puts the lowercased keywords string and the lowercased
\* categories string in a HashSet and joins its elements with " "; the
\* iteration order of a HashSet is unspecified, so get_bow is the set of the
\* strings a call can return
get_bow(item) ==
    LET bow == (IF is_some(item.keywords) THEN {to_lowercase(unwrap(item.keywords))} ELSE {})
               \cup (IF is_some(item.categories) THEN {to_lowercase(unwrap(item.categories))}
                     ELSE {})
    IN  IF bow = {} THEN { <<>> }
        ELSE IF Cardinality(bow) = 1 THEN bow
        ELSE { p[1] \o <<" ">> \o p[2] : p \in { q \in bow \X bow : q[1] # q[2] } }

\* The sentence embedder is an external language model.  Its stand-in maps a
\* sentence to a vector of two numbers that depends on the letters of the
\* sentence.
generate_embedding(sentence) ==
    LET near == { i \in 1..Len(sentence) : sentence[i] \in {"W", "w", "a", "r"} }
    IN  <<1 + Cardinality(near), 1 + Len(sentence) - Cardinality(near)>>

dot(a, b) == SumSeq([i \in 1..Len(a) |-> a[i] * b[i]])

\* the comparison letting a similarity equal to the threshold pass
cosine_similarity_at_least(a, b, num, den) ==
    /\ dot(a, a) * dot(b, b) > 0
    /\ dot(a, b) > 0
    /\ dot(a, b) * dot(a, b) * den * den >= num * num * dot(a, a) * dot(b, b)

\* cosine_similarity(a, b) > num / den for a threshold num / den >= 0, in exact
\* arithmetic; a zero vector gives NaN, which exceeds nothing
cosine_similarity_exceeds(a, b, num, den) ==
    /\ dot(a, a) * dot(b, b) > 0
    /\ dot(a, b) > 0
    /\ dot(a, b) * dot(a, b) * den * den > num * num * dot(a, a) * dot(b, b)

(***************************************************************************)
(* Feedback similarity scorer                                              *)
(***************************************************************************)
Ok(v) == [kind |-> "Ok", value |-> v]
Err == [kind |-> "Err"]
Panic == [kind |-> "Panic"]

\* An extractor closure is named by the embedding field it reads:
\* |record| (record.<field>, record.news_item.relevance.unwrap_or_default())
extract(extractor, record) ==
    <<record[extractor],
      IF is_some(record.news_item.relevance) THEN unwrap(record.news_item.relevance) ELSE 0>>

\* the average replaced by the sum of the relevances
average_as_sum(relevances) == f64_sum(relevances)

\* relevances.iter().sum::<f64>() / relevances.len() as f64
average(relevances) == f64_div(f64_sum(relevances), Len(relevances))

\* the spawning loop without its assert!
dimensions_unchecked(embedding, records, extractor) == TRUE

\* assert!(embedding_length == record_embedding_length) holds for every record
dimensions_agree(embedding, records, extractor) ==
    \A i \in 1..Len(records) : Len(extract(extractor, records[i])[1]) = Len(embedding)

\* the result of a task whose cosine_similarity is an Err is discarded by the
\* filter
calculate_relevance_by_cosine_similarity(embedding, records, num, den, extractor) ==
    IF ~dimensions_agree(embedding, records, extractor)
    THEN Panic
    ELSE LET results == [i \in 1..Len(records) |-> extract(extractor, records[i])]
             similarities ==
                 SelectSeq(results,
                           LAMBDA t : /\ Len(t[1]) = Len(embedding)
                                      /\ cosine_similarity_exceeds(embedding, t[1], num, den))
         IN  IF similarities = <<>> THEN Ok(0)
             ELSE LET relevances == [i \in 1..Len(similarities) |-> similarities[i][2]]
                      avg_relevance == average(relevances)
                  IN  IF is_nan(avg_relevance) \/ is_infinite(avg_relevance)
                         \/ avg_relevance < 0
                      THEN Ok(0)
                      ELSE Ok(avg_relevance)

\* day on which the relevance is computed (chrono::Local::now())
NOW == 10

\* the decay without its floor of 0.7
decayed_without_floor(rel, pub_date) ==
    IF is_some(pub_date)
    THEN IF ~unwrap(pub_date).rfc2822 THEN Panic
         ELSE Ok((rel * (10 - (NOW - unwrap(pub_date).day))) \div 10)
    ELSE Ok(rel)

\* relevance *= (1.0 - 0.1 * days).max(0.7), in tenths; pub_date is
\* Some([rfc2822 |-> whether the string parses, day |-> its day])
decayed(rel, pub_date) ==
    IF is_some(pub_date)
    THEN IF ~unwrap(pub_date).rfc2822 THEN Panic
         ELSE LET days == NOW - unwrap(pub_date).day
              IN  Ok((rel * Max(10 - days, 7)) \div 10)
    ELSE Ok(rel)

\* the second extractor reading the embedding of the bag of words
bow_embedding_extractor == "bow_embedding"

\* the extractor of the call that computes bow_relevance:
\* |record| (record.title_embedding, ..)
bow_extractor == "title_embedding"

\* item_embeddings: what the sentence embedder returned for the title and for
\* the bag of words
calculate_relevance_of_newsitem(item, item_embeddings, records, num, den) ==
    LET title_result ==
            calculate_relevance_by_cosine_similarity(
                item_embeddings[1], records, num, den, "title_embedding")
        bow_result ==
            calculate_relevance_by_cosine_similarity(
                item_embeddings[2], records, num, den, bow_extractor)
    IN  IF title_result.kind # "Ok" THEN title_result
        ELSE IF bow_result.kind # "Ok" THEN bow_result
        ELSE decayed(Max(title_result.value, bow_result.value), item.pub_date)

(***************************************************************************)
(* Texts and items of the model                                            *)
(***************************************************************************)
War == <<"W", "a", "r">>
Wars == <<"W", "a", "r", "s">>
Law == <<"L", "a", "w">>
Tax == <<"T", "a", "x">>
Al == <<"A", "l">>
Comma == <<",">>
Space == <<" ">>
Newline == <<"\n">>

\* PipelineError: <<variant>> or <<variant, payload>>
EmptyString == <<"EmptyString">>
NoContent == <<"NoContent">>
ParsingError(msg) == <<"ParsingError", msg>>
NetworkError(msg) == <<"NetworkError", msg>>
UnknownError == <<"UnknownError">>

NewsItem(link, title, description, creators, pub_date, categories, keywords, content, error, rel) ==
    [ channel |-> <<"c">>, title |-> title, link |-> link, description |-> description,
      creators |-> creators, pub_date |-> pub_date, categories |-> categories,
      keywords |-> keywords, clean_content |-> content, error |-> error,
      relevance |-> rel ]

CreatorsPool == { <<>>, Al }
CategoriesPool == { None, Some(<<>>), Some(War), Some(War \o Comma \o Tax),
                    Some(War \o Comma \o Space \o Law), Some(War \o Space \o Law) }
KeywordsPool == { None, Some(Tax), Some(Law \o Comma \o War) }
TitlePool == { <<>>, War, Wars \o Space \o Tax, War \o Space \o Space \o Law,
               War \o Comma \o Law }
DescriptionPool == { <<>>, Tax, Law \o Space \o War }
CleanContentPool == { None, Some(<<>>), Some(War \o Space \o Tax \o Newline \o Law) }
ErrorPool == { None, Some(EmptyString), Some(NetworkError(<<"x">>)) }
RootWordsFilePool == { None, Some(Tax \o Newline) }

\* the values of the variables of a part of the program that is not running
ScoreIdle == news_item = None /\ core = None /\ relevance = None
CallIdle ==
    /\ op = "none" /\ input = <<>> /\ news_items = <<>> /\ k = 0 /\ tasks = 0 /\ idx = 0
    /\ handles = <<>> /\ joined = 0 /\ out = <<>> /\ pc = "idle" /\ ret = None
OrderIdle == unsorted = <<>> /\ sorter = "none" /\ sorted_items = None
FetchIdle ==
    /\ feed_urls = <<>> /\ opt_in = <<>> /\ operator = "OR" /\ channels = <<>>
    /\ fetched = None
FeedbackIdle ==
    /\ embeddings = <<>> /\ corpus = <<>> /\ threshold = <<0, 1>>
    /\ title_relevance = None /\ bow_relevance = None /\ item_relevance = None

ErrorIdle == pipeline_error = None /\ error_string = None /\ parsed = None
ContentIdle == bag_of_words = None /\ response = None /\ fill_pc = "idle"
CsvIdle == csv_file = None /\ csv_calls = <<>>
DbIdle == table = <<>> /\ batches = <<>> /\ counts = <<>> /\ queried = None
StorageIdle == ErrorIdle /\ ContentIdle /\ CsvIdle /\ DbIdle

(***************************************************************************)
(* Scoring one item: calculate_relevance_core and calculate_relevance      *)
(***************************************************************************)
InitScore ==
    /\ root_words_file \in RootWordsFilePool
    /\ \E cr \in CreatorsPool, ca \in CategoriesPool, kw \in KeywordsPool, ti \in TitlePool,
          de \in DescriptionPool, cc \in CleanContentPool, er \in ErrorPool :
           news_item = NewsItem(<<"l">>, ti, de, cr, None, ca, kw, cc, er, None)
    /\ core = None
    /\ relevance = None
    /\ CallIdle /\ OrderIdle /\ FetchIdle /\ FeedbackIdle /\ StorageIdle

CalculateRelevanceCore ==
    /\ core = None
    /\ core' = Some(calculate_relevance_core(news_item))
    /\ UNCHANGED <<idle_vars, root_words_file, news_item, relevance, call_vars>>

CalculateRelevance ==
    /\ relevance = None
    /\ relevance' = Some(calculate_relevance(news_item))
    /\ UNCHANGED <<idle_vars, root_words_file, news_item, core, call_vars>>

NextScore == CalculateRelevanceCore \/ CalculateRelevance

SpecScore == InitScore /\ [][NextScore]_vars

(***************************************************************************)
(* Properties of the lexical scorer                                        *)
(***************************************************************************)
\* number of the tokens that are similar to a root word
MatchCount(tokens) ==
    Cardinality({ i \in 1..Len(tokens) : similar_to_root_word(tokens[i], DICE_NUM, DICE_DEN) })

\* C6: for an item whose error is set, whatever its text fields are,
\* calculate_relevance returns the error flag set, relevance_core = 0 and
\* relevance_content = 0, the five core components zero and net relevance 0,
\* and calculate_relevance_core returns (true, 0, 0, 0, 0, 0).
C6_ErrorItemScoresZero ==
    is_some(news_item.error) =>
        /\ is_some(core) => unwrap(core) = <<TRUE, 0, 0, 0, 0, 0>>
        /\ is_some(relevance) =>
              /\ unwrap(relevance).error = TRUE
              /\ unwrap(relevance).relevance_core = 0
              /\ unwrap(relevance).relevance_content = 0
              /\ unwrap(relevance).explanation = <<0, 0, 0, 0, 0>>
              /\ net_relevance(unwrap(relevance)) = 0

\* an error item with matching words in every text field has been scored
C6_Witness ==
    /\ is_some(news_item.error)
    /\ is_some(relevance) /\ is_some(core)
    /\ news_item.creators = Al
    /\ news_item.categories = Some(War)
    /\ news_item.keywords = Some(Law \o Comma \o War)
    /\ news_item.title = War
    /\ news_item.description = Law \o Space \o War
    /\ news_item.clean_content = Some(War \o Space \o Tax \o Newline \o Law)

\* C7: for an item without an error calculate_relevance_core returns creator
\* 10 iff creators is non-empty, categories 5 per matching comma-separated
\* token, keywords 5 per matching comma-separated token, title 10 per matching
\* whitespace-separated word, description 1 per matching whitespace-separated
\* word, and 0 for an absent categories or keywords field.
C7_CoreComponents ==
    (is_none(news_item.error) /\ is_some(core)) =>
        /\ unwrap(core)[1] = FALSE
        /\ unwrap(core)[2] = (IF news_item.creators = <<>> THEN 0 ELSE 10)
        /\ unwrap(core)[3] = (IF is_none(news_item.categories) THEN 0
                              ELSE 5 * MatchCount(split(unwrap(news_item.categories), ",")))
        /\ unwrap(core)[4] = (IF is_none(news_item.keywords) THEN 0
                              ELSE 5 * MatchCount(split(unwrap(news_item.keywords), ",")))
        /\ unwrap(core)[5] = 10 * MatchCount(split_whitespace(news_item.title))
        /\ unwrap(core)[6] = 1 * MatchCount(split_whitespace(news_item.description))

\* an item without error scored (false, 10, 10, 10, 20, 2)
C7_Witness ==
    /\ is_none(news_item.error)
    /\ news_item.categories = Some(War \o Comma \o Space \o Law)
    /\ core = Some(<<FALSE, 10, 10, 10, 20, 2>>)

\* C8: for an item without an error calculate_relevance sets the body-text
\* component to the number of matching whitespace-separated words of the clean
\* content (0 when absent), and net_relevance is the sum of the five core
\* components and the body-text component.
C8_ContentAndNet ==
    (is_none(news_item.error) /\ is_some(relevance) /\ is_some(core)) =>
        /\ unwrap(relevance).relevance_content =
              (IF is_none(news_item.clean_content) THEN 0
               ELSE MatchCount(split_whitespace(unwrap(news_item.clean_content))))
        /\ net_relevance(unwrap(relevance)) =
              unwrap(core)[2] + unwrap(core)[3] + unwrap(core)[4] + unwrap(core)[5]
              + unwrap(core)[6] + unwrap(relevance).relevance_content

\* an item with three body words, all matching, and every core component set
C8_Witness ==
    /\ is_none(news_item.error)
    /\ core = Some(<<FALSE, 10, 10, 10, 20, 2>>)
    /\ is_some(relevance)
    /\ unwrap(relevance).relevance_content = 3
    /\ net_relevance(unwrap(relevance)) = 55

(***************************************************************************)
(* Ordering and top-k selection                                            *)
(***************************************************************************)
\* std::cmp::Ordering
Less == "Less"
Equal == "Equal"
Greater == "Greater"

\* Ord::cmp on integers and partial_cmp on the (never NaN) f64 values
cmp(a, b) == IF a < b THEN Less ELSE IF a > b THEN Greater ELSE Equal

\* Relevance::cmp; bool::cmp orders false before true
Relevance_cmp(self, other) ==
    IF self.error # other.error
    THEN (IF other.error THEN Less ELSE Greater)
    ELSE IF self.relevance_core # other.relevance_core
    THEN cmp(self.relevance_core, other.relevance_core)
    ELSE cmp(self.relevance_content, other.relevance_content)

\* the closure top_k_news_items sorts with, on (item, relevance) pairs
top_k_compare(a, b) == Relevance_cmp(b[2], a[2])

\* relevance_compare with its arguments exchanged: ascending order
relevance_compare_ascending(a, b) ==
    IF is_some(b.relevance) /\ is_some(a.relevance)
    THEN cmp(unwrap(a.relevance), unwrap(b.relevance))
    ELSE IF is_none(b.relevance) /\ is_some(a.relevance) THEN Less
    ELSE IF is_some(b.relevance) /\ is_none(a.relevance) THEN Greater
    ELSE Equal

\* the closure update_news_items_with_relevance_top_k sorts with
relevance_compare(a, b) ==
    IF is_some(b.relevance) /\ is_some(a.relevance)
    THEN cmp(unwrap(b.relevance), unwrap(a.relevance))
    ELSE IF is_none(b.relevance) /\ is_some(a.relevance) THEN Greater
    ELSE IF is_some(b.relevance) /\ is_none(a.relevance) THEN Less
    ELSE Equal

\* NewsItem::cmp_relevance
cmp_relevance(self, other) ==
    IF is_some(self.relevance) /\ is_some(other.relevance)
    THEN cmp(unwrap(self.relevance), unwrap(other.relevance))
    ELSE IF is_some(self.relevance) /\ is_none(other.relevance) THEN Greater
    ELSE IF is_none(self.relevance) /\ is_some(other.relevance) THEN Less
    ELSE Equal

\* the closure generate_relevance_report sorts with: |a, b| b.cmp_relevance(a)
report_compare(a, b) == cmp_relevance(b, a)

\* the closure log_news_items_to_file sorts with: |a, b| a.cmp_relevance(b)
log_compare(a, b) == cmp_relevance(a, b)

\* a call of the closure that sort_by was given, named by its definition
call(compare, a, b) ==
    IF compare = "relevance_compare" THEN relevance_compare(a, b)
    ELSE IF compare = "report_compare" THEN report_compare(a, b)
    ELSE IF compare = "log_compare" THEN log_compare(a, b)
    ELSE top_k_compare(a, b)

\* slice::sort_by on a short slice: a stable insertion sort that moves each
\* element left while compare(element, left neighbour) is Less
insert_tail(sorted, x, compare) ==
    LET stay == { j \in 1..Len(sorted) : call(compare, x, sorted[j]) # Less }
        p == IF stay = {} THEN 0 ELSE CHOOSE j \in stay : \A j2 \in stay : j2 <= j
    IN  SubSeq(sorted, 1, p) \o <<x>> \o SubSeq(sorted, p + 1, Len(sorted))

sort_by(s, compare) ==
    LET sorted[n \in 0..Len(s)] ==
            IF n = 0 THEN <<>> ELSE insert_tail(sorted[n - 1], s[n], compare)
    IN  sorted[Len(s)]

\* Iterator::take(n).collect()
take(s, n) == SubSeq(s, 1, IF n < Len(s) THEN n ELSE Len(s))

(***************************************************************************)
(* Inputs of the orchestrators                                             *)
(***************************************************************************)
MaxItems == 3
MaxK == 2

Date(day) == Some([rfc2822 |-> TRUE, day |-> day])
BadDate == Some([rfc2822 |-> FALSE, day |-> 0])

Item1 == NewsItem(<<"1">>, War, <<>>, Al, None, Some(War), None, None, None, None)
Item2 == NewsItem(<<"2">>, Tax, <<>>, <<>>, Date(8), None, Some(Tax), None, None, Some(3 * F64_ONE))
Item3 == NewsItem(<<"3">>, War, Law, Al, None, Some(War), Some(Law), Some(War), Some(NoContent), None)
Item4 == NewsItem(<<"4">>, Wars \o Space \o Law, <<>>, Al, BadDate, None, None, Some(War), None, None)

ItemPool == { Item1, Item2, Item3, Item4 }

\* the vectors of at most MaxItems distinct items (link is the unique key)
Inputs ==
    UNION { { s \in [1..n -> ItemPool] : \A i, j \in 1..n : i # j => s[i] # s[j] } :
            n \in 0..MaxItems }

FeedbackRecord(item, title_embedding, bow_embedding) ==
    [news_item |-> item, title_embedding |-> title_embedding, bow_embedding |-> bow_embedding]

\* the corpus of rated items and the threshold (0.95 = 19 / 20) of a call
feedback_records ==
    << FeedbackRecord([Item1 EXCEPT !.relevance = Some(F64_ONE \div 2)],
                      generate_embedding(War), <<1, 1>>),
       FeedbackRecord([Item2 EXCEPT !.relevance = Some((7 * F64_ONE) \div 10)],
                      generate_embedding(Tax), <<1, 2>>) >>
similarity_threshold == <<19, 20>>

(***************************************************************************)
(* The spawned units                                                       *)
(***************************************************************************)
Handle(item) == [item |-> item, state |-> "running", output |-> None]

\* relevance_unit storing the five-component subtotal
relevance_unit_core_only(item) ==
    [item EXCEPT !.relevance = Some(calculate_relevance(item).relevance_core * F64_ONE)]

\* the value a unit of the lexical orchestrators returns
relevance_unit(item) ==
    [item EXCEPT !.relevance = Some(net_relevance(calculate_relevance(item)) * F64_ONE)]

top_k_unit(item) == <<item, calculate_relevance(item)>>

feedback_record_unit(item, bow) ==
    Ok(FeedbackRecord(item, generate_embedding(item.title), generate_embedding(bow)))

feedback_relevance_unit(item, bow) ==
    calculate_relevance_of_newsitem(item,
                                    <<generate_embedding(item.title), generate_embedding(bow)>>,
                                    feedback_records,
                                    similarity_threshold[1], similarity_threshold[2])

Finished(h, v) == [handles EXCEPT ![h].state = "finished", ![h].output = Some(v)]
Panicked(h) == [handles EXCEPT ![h].state = "panicked"]

\* a unit runs to its end
UnitComplete ==
    \E h \in 1..Len(handles) :
        /\ handles[h].state = "running"
        /\ \/ /\ op \in {"update_news_items_with_relevance",
                         "update_news_items_with_relevance_top_k"}
              /\ handles' = Finished(h, relevance_unit(handles[h].item))
           \/ /\ op = "top_k_news_items"
              /\ handles' = Finished(h, top_k_unit(handles[h].item))
           \/ /\ op = "generate_feedback_records"
              /\ \E bow \in get_bow(handles[h].item) :
                     handles' = Finished(h, feedback_record_unit(handles[h].item, bow))
           \/ /\ op = "update_relevance_of_news_items"
              /\ \E bow \in get_bow(handles[h].item) :
                     LET r == feedback_relevance_unit(handles[h].item, bow)
                     IN  handles' = IF r.kind = "Panic" THEN Panicked(h) ELSE Finished(h, r)
        /\ UNCHANGED <<idle_vars, root_words_file, scoring_vars, op, input, news_items, k, tasks, idx,
                       joined, out, pc, ret>>

\* a unit panics in code the model does not follow (dirs::home_dir().unwrap(),
\* the tokenizer, the tensor library)
UnitPanic ==
    \E h \in 1..Len(handles) :
        /\ handles[h].state = "running"
        /\ handles' = Panicked(h)
        /\ UNCHANGED <<idle_vars, root_words_file, scoring_vars, op, input, news_items, k, tasks, idx,
                       joined, out, pc, ret>>

\* a unit returns Err: the model files cannot be fetched or loaded
UnitError ==
    \E h \in 1..Len(handles) :
        /\ handles[h].state = "running"
        /\ op \in {"generate_feedback_records", "update_relevance_of_news_items"}
        /\ handles' = Finished(h, Err)
        /\ UNCHANGED <<idle_vars, root_words_file, scoring_vars, op, input, news_items, k, tasks, idx,
                       joined, out, pc, ret>>

(***************************************************************************)
(* update_news_items_with_relevance and ..._top_k                          *)
(***************************************************************************)
Lexical == {"update_news_items_with_relevance", "update_news_items_with_relevance_top_k"}

\* a spawning loop that ends after its first unit
spawn_loop_done_after_one == Len(handles) = tasks \/ Len(handles) = 1

\* the "for _ in 0..tasks" loop has ended
spawn_loop_done == Len(handles) = tasks

\* the spawning loop handing the first item of the vector to the unit
popped_front(v) == v[1]

\* the item news_items.pop().unwrap() gives: the last of the vector
popped(v) == v[Len(v)]

\* for _ in 0..tasks { news_items.pop().unwrap(); tokio::spawn(..) }
U_Spawn ==
    /\ op \in Lexical /\ pc = "running"
    /\ ~spawn_loop_done
    /\ news_items # <<>>
    /\ news_items' = SubSeq(news_items, 1, Len(news_items) - 1)
    /\ handles' = Append(handles, Handle(popped(news_items)))
    /\ UNCHANGED <<idle_vars, root_words_file, scoring_vars, op, input, k, tasks, idx, joined, out, pc,
                   ret>>

\* for handle in handles { updated_news_items.push(handle.await.unwrap()) }
U_Await ==
    /\ op \in Lexical /\ pc = "running"
    /\ spawn_loop_done
    /\ joined < Len(handles)
    /\ handles[joined + 1].state # "running"
    /\ joined' = joined + 1
    /\ IF handles[joined + 1].state = "finished"
       THEN out' = Append(out, unwrap(handles[joined + 1].output)) /\ pc' = pc
       ELSE pc' = "panicked" /\ out' = out
    /\ UNCHANGED <<idle_vars, root_words_file, scoring_vars, op, input, news_items, k, tasks, idx,
                   handles, ret>>

\* if updated_news_items.is_empty() { None } else { Some(updated_news_items) }
U_Return ==
    /\ op \in Lexical /\ pc = "running"
    /\ spawn_loop_done
    /\ joined = Len(handles)
    /\ ret' = IF out = <<>> THEN None ELSE Some(out)
    /\ pc' = IF op = "update_news_items_with_relevance" THEN "done" ELSE "returned"
    /\ UNCHANGED <<idle_vars, root_words_file, scoring_vars, op, input, news_items, k, tasks, idx,
                   handles, joined, out>>

\* .expect("Should not happen"), sort_by, take(k)
UK_TopK ==
    /\ op = "update_news_items_with_relevance_top_k" /\ pc = "returned"
    /\ IF is_none(ret)
       THEN pc' = "panicked" /\ ret' = ret
       ELSE /\ ret' = take(sort_by(unwrap(ret), "relevance_compare"), k)
            /\ pc' = "done"
    /\ UNCHANGED <<idle_vars, root_words_file, scoring_vars, op, input, news_items, k, tasks, idx,
                   handles, joined, out>>

\* the caller hands the vector it got back to a second call with the same k
UK_CallAgain ==
    /\ op = "update_news_items_with_relevance_top_k" /\ pc = "done"
    /\ input' = ret
    /\ news_items' = ret
    /\ tasks' = Len(ret)
    /\ handles' = <<>>
    /\ joined' = 0
    /\ out' = <<>>
    /\ pc' = "running"
    /\ ret' = None
    /\ UNCHANGED <<idle_vars, root_words_file, scoring_vars, op, k, idx>>

(***************************************************************************)
(* top_k_news_items                                                        *)
(***************************************************************************)
\* for item in news_items.iter() { item.clone(); tokio::spawn(..) }
TK_Spawn ==
    /\ op = "top_k_news_items" /\ pc = "running"
    /\ idx < Len(news_items)
    /\ handles' = Append(handles, Handle(news_items[idx + 1]))
    /\ idx' = idx + 1
    /\ UNCHANGED <<idle_vars, root_words_file, scoring_vars, op, input, news_items, k, tasks, joined,
                   out, pc, ret>>

\* for handle in handles { if let Ok(result) = handle.await { push(result) } }
TK_Await ==
    /\ op = "top_k_news_items" /\ pc = "running"
    /\ idx = Len(news_items)
    /\ joined < Len(handles)
    /\ handles[joined + 1].state # "running"
    /\ joined' = joined + 1
    /\ out' = IF handles[joined + 1].state = "finished"
              THEN Append(out, unwrap(handles[joined + 1].output))
              ELSE out
    /\ UNCHANGED <<idle_vars, root_words_file, scoring_vars, op, input, news_items, k, tasks, idx,
                   handles, pc, ret>>

\* sort_by(|a, b| b.1.cmp(&a.1)), take(top_k), map(|(item, _)| item)
TK_Return ==
    /\ op = "top_k_news_items" /\ pc = "running"
    /\ idx = Len(news_items)
    /\ joined = Len(handles)
    /\ LET top == take(sort_by(out, "top_k_compare"), k)
       IN  ret' = [i \in 1..Len(top) |-> top[i][1]]
    /\ pc' = "done"
    /\ UNCHANGED <<idle_vars, root_words_file, scoring_vars, op, input, news_items, k, tasks, idx,
                   handles, joined, out>>

(***************************************************************************)
(* update_relevance_of_news_items                                          *)
(***************************************************************************)
\* for news_item in news_items.iter_mut() { if error.is_some() { continue; } spawn }
UR_Spawn ==
    /\ op = "update_relevance_of_news_items" /\ pc = "running"
    /\ idx < Len(news_items)
    /\ idx' = idx + 1
    /\ handles' = IF is_some(news_items[idx + 1].error)
                  THEN handles
                  ELSE Append(handles, Handle(news_items[idx + 1]))
    /\ UNCHANGED <<idle_vars, root_words_file, scoring_vars, op, input, news_items, k, tasks, joined,
                   out, pc, ret>>

\* for (i, handle) in handles.into_iter().enumerate() {
\*     if let Ok(result) = handle.await { news_items[i].relevance = Some(result?) } }
UR_Await ==
    /\ op = "update_relevance_of_news_items" /\ pc = "running"
    /\ idx = Len(news_items)
    /\ joined < Len(handles)
    /\ handles[joined + 1].state # "running"
    /\ LET i == joined
           handle == handles[joined + 1]
       IN  IF handle.state = "finished"
           THEN IF unwrap(handle.output).kind = "Ok"
                THEN /\ news_items' = [news_items EXCEPT
                                          ![i + 1].relevance = Some(unwrap(handle.output).value)]
                     /\ joined' = joined + 1
                     /\ UNCHANGED <<pc, ret>>
                ELSE /\ ret' = Err
                     /\ pc' = "done"
                     /\ joined' = joined + 1
                     /\ UNCHANGED news_items
           ELSE /\ joined' = joined + 1
                /\ UNCHANGED <<news_items, pc, ret>>
    /\ UNCHANGED <<idle_vars, root_words_file, scoring_vars, op, input, k, tasks, idx, handles, out>>

\* Ok(())
UR_Return ==
    /\ op = "update_relevance_of_news_items" /\ pc = "running"
    /\ idx = Len(news_items)
    /\ joined = Len(handles)
    /\ ret' = Ok(<<>>)
    /\ pc' = "done"
    /\ UNCHANGED <<idle_vars, root_words_file, scoring_vars, op, input, news_items, k, tasks, idx,
                   handles, joined, out>>

(***************************************************************************)
(* generate_feedback_records                                               *)
(***************************************************************************)
\* for item in news_items.iter() { if error.is_some() { continue; } spawn }
GF_Spawn ==
    /\ op = "generate_feedback_records" /\ pc = "running"
    /\ idx < Len(news_items)
    /\ idx' = idx + 1
    /\ handles' = IF is_some(news_items[idx + 1].error)
                  THEN handles
                  ELSE Append(handles, Handle(news_items[idx + 1]))
    /\ UNCHANGED <<idle_vars, root_words_file, scoring_vars, op, input, news_items, k, tasks, joined,
                   out, pc, ret>>

\* for handle in handles { if let Ok(result) = handle.await { push(result?) } }
GF_Await ==
    /\ op = "generate_feedback_records" /\ pc = "running"
    /\ idx = Len(news_items)
    /\ joined < Len(handles)
    /\ handles[joined + 1].state # "running"
    /\ joined' = joined + 1
    /\ LET handle == handles[joined + 1]
       IN  IF handle.state = "finished"
           THEN IF unwrap(handle.output).kind = "Ok"
                THEN /\ out' = Append(out, unwrap(handle.output).value)
                     /\ UNCHANGED <<pc, ret>>
                ELSE /\ ret' = Err
                     /\ pc' = "done"
                     /\ UNCHANGED out
           ELSE UNCHANGED <<out, pc, ret>>
    /\ UNCHANGED <<idle_vars, root_words_file, scoring_vars, op, input, news_items, k, tasks, idx,
                   handles>>

\* Ok(feedback_records)
GF_Return ==
    /\ op = "generate_feedback_records" /\ pc = "running"
    /\ idx = Len(news_items)
    /\ joined = Len(handles)
    /\ ret' = Ok(out)
    /\ pc' = "done"
    /\ UNCHANGED <<idle_vars, root_words_file, scoring_vars, op, input, news_items, k, tasks, idx,
                   handles, joined, out>>

(***************************************************************************)
(* A call of one orchestrator on one input                                 *)
(***************************************************************************)
Init ==
    /\ root_words_file \in RootWordsFilePool
    /\ ScoreIdle /\ OrderIdle /\ FetchIdle /\ FeedbackIdle /\ StorageIdle
    /\ op \in {"update_news_items_with_relevance", "update_news_items_with_relevance_top_k",
               "top_k_news_items", "update_relevance_of_news_items",
               "generate_feedback_records"}
    /\ input \in Inputs
    /\ news_items = input
    /\ k \in IF op \in {"update_news_items_with_relevance_top_k", "top_k_news_items"}
             THEN 0..MaxK ELSE {0}
    /\ tasks = Len(input)
    /\ idx = 0
    /\ handles = <<>>
    /\ joined = 0
    /\ out = <<>>
    /\ pc = "running"
    /\ ret = None

Next ==
    \/ U_Spawn \/ U_Await \/ U_Return \/ UK_TopK \/ UK_CallAgain
    \/ TK_Spawn \/ TK_Await \/ TK_Return
    \/ UR_Spawn \/ UR_Await \/ UR_Return
    \/ GF_Spawn \/ GF_Await \/ GF_Return
    \/ UnitComplete \/ UnitPanic \/ UnitError

Spec == Init /\ [][Next]_vars

(***************************************************************************)
(* Properties of the orchestrators                                         *)
(***************************************************************************)
\* the call has returned to its caller without a failure
ReturnedNormally ==
    /\ pc = "done"
    /\ op \in {"update_relevance_of_news_items", "generate_feedback_records"} => ret.kind = "Ok"

\* the positions of s whose item has no error, in order
RECURSIVE NonErrorPositions(_, _)
NonErrorPositions(s, from) ==
    IF from > Len(s) THEN <<>>
    ELSE (IF is_none(s[from].error) THEN <<from>> ELSE <<>>) \o NonErrorPositions(s, from + 1)

\* C1: in update_relevance_of_news_items every relevance computed by a unit is
\* written back to the item the unit was created from: after the call has
\* returned Ok, the item that each finished unit was spawned for holds that
\* unit's relevance.
C1_RelevanceWrittenToOrigin ==
    (op = "update_relevance_of_news_items" /\ pc = "done" /\ ret.kind = "Ok") =>
        \A h \in 1..Len(handles) :
            handles[h].state = "finished" =>
                LET origin == NonErrorPositions(input, 1)[h]
                IN  /\ news_items[origin].link = handles[h].item.link
                    /\ news_items[origin].relevance = Some(unwrap(handles[h].output).value)

\* C2: update_news_items_with_relevance on a non-empty input returns only after
\* every unit has completed, and its output holds exactly the input items, each
\* once, each with relevance = Some(net lexical relevance of that item).
C2_AllScoredOnce ==
    (op \in Lexical /\ pc \in {"returned", "done"} /\ input # <<>>) =>
        /\ \A h \in 1..Len(handles) : handles[h].state = "finished"
        /\ Len(out) = Len(input)
        /\ \A i \in 1..Len(input) :
              \E j \in 1..Len(out) :
                  /\ out[j] = [input[i] EXCEPT !.relevance =
                                   Some(net_relevance(calculate_relevance(input[i])) * F64_ONE)]
                  /\ \A j2 \in 1..Len(out) : out[j2].link = input[i].link => j2 = j
        /\ (pc = "returned" \/ op = "update_news_items_with_relevance") => ret = Some(out)

\* three items have been scored and returned, with different relevances
C2_Witness ==
    /\ op = "update_news_items_with_relevance" /\ pc = "done"
    /\ Len(input) = 3 /\ ret = Some(out)
    /\ \E i, j \in 1..Len(out) : out[i].relevance # out[j].relevance

\* C3: in every orchestrator a unit that panics makes the whole call fail: no
\* call returns normally when one of its units has panicked.
C3_FaultFailsTheCall ==
    ReturnedNormally => \A h \in 1..Len(handles) : handles[h].state # "panicked"

\* C4 as claimed: an item whose error is set is dispatched by both scoring
\* orchestrators and leaves them with relevance Some(0).
C4_ErrorItemScoredZero ==
    (/\ op \in Lexical \cup {"update_relevance_of_news_items"}
     /\ pc \in {"returned", "done"}
     /\ op = "update_relevance_of_news_items" => ret.kind = "Ok") =>
        \A i \in 1..Len(input) :
            is_some(input[i].error) =>
                /\ \E h \in 1..Len(handles) : handles[h].item.link = input[i].link
                /\ LET result == IF op \in Lexical THEN out ELSE news_items
                   IN  \A j \in 1..Len(result) :
                           result[j].link = input[i].link => result[j].relevance = Some(0)

\* C4 amended: update_news_items_with_relevance dispatches an item whose error
\* is set and returns it with relevance Some(0); update_relevance_of_news_items
\* spawns no unit for such an item, only one for each item without an error.
C4_ErrorItemDispatchedByLexicalOnly ==
    /\ (op \in Lexical /\ pc \in {"returned", "done"}) =>
          \A i \in 1..Len(input) :
              is_some(input[i].error) =>
                  /\ \E h \in 1..Len(handles) : handles[h].item = input[i]
                  /\ \E j \in 1..Len(out) :
                         out[j] = [input[i] EXCEPT !.relevance = Some(0)]
    /\ op = "update_relevance_of_news_items" =>
          /\ \A h \in 1..Len(handles) : is_none(handles[h].item.error)
          /\ idx = Len(input) =>
                Len(handles) = Len(NonErrorPositions(input, 1))

\* an item with an error, a creator and matching words was returned with Some(0)
C4_Witness ==
    /\ op = "update_news_items_with_relevance" /\ pc = "done"
    /\ \E j \in 1..Len(out) : out[j] = [Item3 EXCEPT !.relevance = Some(0)]
    /\ \E j \in 1..Len(out) : is_none(out[j].error) /\ out[j].relevance # Some(0)

\* C5: update_news_items_with_relevance spawns one unit per input item, and all
\* of them before it awaits any: once a handle has been awaited, or the call is
\* over, there is one unit for each item of the input.
C5_AllSpawnedBeforeAwait ==
    op \in Lexical =>
        /\ (joined > 0 \/ pc # "running") =>
              /\ Len(handles) = Len(input)
              /\ news_items = <<>>
        /\ Len(handles) <= Len(input)
        /\ \A h \in 1..Len(handles) : handles[h].item = input[Len(input) - h + 1]

\* the first of three handles has been awaited while another unit still runs
C5_Witness ==
    /\ op \in Lexical /\ pc = "running"
    /\ Len(input) = 3 /\ Len(handles) = 3
    /\ joined = 1
    /\ handles[3].state = "running"

\* C9: top_k_news_items, sorting by the ordering of relevance breakdowns in
\* descending order, places every item without an error before every item with
\* an error.
C9_NonErrorBeforeError ==
    (op = "top_k_news_items" /\ pc = "done") =>
        \A i, j \in 1..Len(ret) :
            (is_none(ret[i].error) /\ is_some(ret[j].error)) => i < j

\* C10: update_news_items_with_relevance_top_k returns at most k items in
\* non-increasing order of relevance, each with a relevance greater than or
\* equal to that of every scored item it does not return.
C10_TopK ==
    (op = "update_news_items_with_relevance_top_k" /\ pc = "done") =>
        /\ Len(ret) <= k
        /\ \A i, j \in 1..Len(ret) :
              i < j => unwrap(ret[i].relevance) >= unwrap(ret[j].relevance)
        /\ \A i \in 1..Len(ret) : \E j \in 1..Len(out) : out[j] = ret[i]
        /\ \A i \in 1..Len(ret), j \in 1..Len(out) :
              (\A i2 \in 1..Len(ret) : ret[i2].link # out[j].link) =>
                  unwrap(ret[i].relevance) >= unwrap(out[j].relevance)

\* two of three items were returned and the third one has a lower relevance
C10_Witness ==
    /\ op = "update_news_items_with_relevance_top_k" /\ pc = "done"
    /\ k = 2 /\ Len(ret) = 2 /\ Len(out) = 3
    /\ unwrap(ret[1].relevance) > unwrap(ret[2].relevance)
    /\ \E j \in 1..Len(out) : unwrap(out[j].relevance) < unwrap(ret[2].relevance)

\* the position of the item of s that has this link
PositionOf(s, link) == CHOOSE i \in 1..Len(s) : s[i].link = link

\* C12: in the result of update_news_items_with_relevance_top_k two items with
\* equal relevance appear in the relative order they had in the vector passed
\* by the caller.
C12_TiesInInputOrder ==
    (op = "update_news_items_with_relevance_top_k" /\ pc = "done") =>
        \A i, j \in 1..Len(ret) :
            (i < j /\ ret[i].relevance = ret[j].relevance) =>
                PositionOf(input, ret[i].link) < PositionOf(input, ret[j].link)

\* C13: update_news_items_with_relevance_top_k, given a vector of at most k
\* items that carry their relevance in non-increasing order, returns the same
\* items in the same order.
C13_TopKIdempotent ==
    (/\ op = "update_news_items_with_relevance_top_k" /\ pc = "done"
     /\ Len(input) <= k
     /\ \A i \in 1..Len(input) : is_some(input[i].relevance)
     /\ \A i, j \in 1..Len(input) :
            i < j => unwrap(input[i].relevance) >= unwrap(input[j].relevance)) =>
        /\ Len(ret) = Len(input)
        /\ \A i \in 1..Len(ret) : ret[i].link = input[i].link

\* C14: update_news_items_with_relevance_top_k on a vector of n <= k items, the
\* empty vector included, does not abort when no unit fails, and returns all n
\* items.
C14_ShortInputReturnsNormally ==
    (/\ op = "update_news_items_with_relevance_top_k"
     /\ Len(input) <= k
     /\ \A h \in 1..Len(handles) : handles[h].state # "panicked") =>
        /\ pc # "panicked"
        /\ pc = "done" => Len(ret) = Len(input)

\* C27: for every order in which the units complete, the vector
\* update_news_items_with_relevance returns holds the scored items of the
\* input in reverse input order, and the caller's vector is left empty.
C27_OutputReversed ==
    (op = "update_news_items_with_relevance" /\ pc = "done" /\ input # <<>>) =>
        /\ is_some(ret)
        /\ Len(unwrap(ret)) = Len(input)
        /\ \A i \in 1..Len(input) :
              unwrap(ret)[i] = relevance_unit(input[Len(input) - i + 1])
        /\ news_items = <<>>

\* three items with three links have been returned
C27_Witness ==
    /\ op = "update_news_items_with_relevance" /\ pc = "done"
    /\ Len(input) = 3
    /\ is_some(ret)
    /\ unwrap(ret)[1].link = input[3].link
    /\ unwrap(ret)[3].link = input[1].link
    /\ input[1].link # input[3].link
    /\ news_items = <<>>

\* C28: update_relevance_of_news_items leaves the length and the order of the
\* slice and every field but relevance as they were, and leaves the relevance
\* of every item whose error is set as it was.
C28_FrameOfUpdate ==
    op = "update_relevance_of_news_items" =>
        /\ Len(news_items) = Len(input)
        /\ \A i \in 1..Len(input) :
              /\ [news_items[i] EXCEPT !.relevance = input[i].relevance] = input[i]
              /\ is_some(input[i].error) => news_items[i].relevance = input[i].relevance

(***************************************************************************)
(* Sorting by relevance: top-k selection and the reports                   *)
(***************************************************************************)
Digits == <<"1", "2", "3", "4", "5", "6">>

\* the relevance an item of a vector to sort can carry
RelevancePool == { None, Some(0), Some(F64_ONE), Some(2 * F64_ONE) }

\* the vectors of at most MaxItems items, the i-th one with link i
Unsorted ==
    UNION { { [i \in 1..n |-> [Item1 EXCEPT !.link = <<Digits[i]>>, !.relevance = r[i]]] :
                r \in [1..n -> RelevancePool] } : n \in 0..MaxItems }

InitOrder ==
    /\ root_words_file = None
    /\ ScoreIdle /\ CallIdle /\ FetchIdle /\ FeedbackIdle /\ StorageIdle
    /\ unsorted \in Unsorted
    /\ sorter = "none"
    /\ sorted_items = None

\* updated_items.sort_by(|a, b| match (b.relevance, a.relevance) { .. })
SortTopK ==
    /\ sorted_items = None
    /\ sorted_items' = Some(sort_by(unsorted, "relevance_compare"))
    /\ sorter' = "update_news_items_with_relevance_top_k"
    /\ UNCHANGED <<unsorted, fetch_vars, feedback_vars, storage_vars, root_words_file, scoring_vars,
                   call_vars>>

\* news_items.sort_by(|a, b| b.cmp_relevance(a))
SortReport ==
    /\ sorted_items = None
    /\ sorted_items' = Some(sort_by(unsorted, "report_compare"))
    /\ sorter' = "generate_relevance_report"
    /\ UNCHANGED <<unsorted, fetch_vars, feedback_vars, storage_vars, root_words_file, scoring_vars,
                   call_vars>>

\* news_items.sort_by(|a, b| a.cmp_relevance(b))
SortLog ==
    /\ sorted_items = None
    /\ sorted_items' = Some(sort_by(unsorted, "log_compare"))
    /\ sorter' = "log_news_items_to_file"
    /\ UNCHANGED <<unsorted, fetch_vars, feedback_vars, storage_vars, root_words_file, scoring_vars,
                   call_vars>>

NextOrder == SortTopK \/ SortReport \/ SortLog

SpecOrder == InitOrder /\ [][NextOrder]_vars

MaxFeeds == 2
MaxTerms == 2

\* [String]::join(sep)
RECURSIVE join(_, _)
join(strings, sep) ==
    IF strings = <<>> THEN <<>>
    ELSE IF Len(strings) = 1 THEN strings[1]
    ELSE strings[1] \o sep \o join(Tail(strings), sep)

\* contains matching the pattern at the start of the string only
contains_at_start(s, pat) == Len(pat) <= Len(s) /\ SubSeq(s, 1, Len(pat)) = pat

\* str::contains(&String): the pattern occurs as a substring
contains(s, pat) ==
    \E i \in 1..(Len(s) - Len(pat) + 1) : SubSeq(s, i, i + Len(pat) - 1) = pat

\* an rss::Item: the parts NewsItem::from_item reads
RssItem(title, link, description, categories, extensions, dublin_core_ext) ==
    [ title |-> title, link |-> link, description |-> description, pub_date |-> None,
      categories |-> categories, extensions |-> extensions,
      dublin_core_ext |-> dublin_core_ext ]

Extension(name, value) == [name |-> name, value |-> value]

\* NewsItem::from_item
from_item(channel, item) ==
    IF is_none(item.title) \/ is_none(item.link) \/ is_none(item.description) THEN Err
    ELSE LET names == [i \in 1..Len(item.categories) |-> to_lowercase(item.categories[i])]
             categories == IF names = <<>> THEN None ELSE Some(join(names, Comma))
             keywords ==
                 IF is_none(item.extensions) THEN None
                 ELSE LET exts == unwrap(item.extensions)
                      IN  IF \A i \in 1..Len(exts) :
                                 exts[i].name = "media:keywords" /\ is_some(exts[i].value)
                          THEN Some(join([i \in 1..Len(exts) |->
                                              to_lowercase(unwrap(exts[i].value))], Comma))
                          ELSE None
             creators == IF is_some(item.dublin_core_ext)
                         THEN join(unwrap(item.dublin_core_ext), Comma)
                         ELSE <<>>
         IN  Ok([NewsItem(unwrap(item.link), unwrap(item.title), unwrap(item.description),
                          creators, item.pub_date, categories, keywords, None, None, None)
                     EXCEPT !.channel = channel])

\* the feeds behind the urls of the model; reading the url "x" fails
Channel(title, items) == [title |-> title, items |-> items]

FeedA ==
    Channel(<<"a">>,
            << RssItem(Some(War), Some(<<"1">>), Some(<<>>), <<War>>,
                       Some(<<Extension("media:keywords", Some(Tax \o Comma \o Law))>>),
                       Some(<<Al>>)),
               RssItem(Some(Tax), None, Some(<<>>), <<Law>>, None, None),
               RssItem(Some(Tax), Some(<<"2">>), Some(Tax), <<>>, None, None) >>)

FeedB ==
    Channel(<<"b">>,
            << RssItem(Some(Law), Some(<<"3">>), Some(<<>>), <<Law, War>>,
                       Some(<<Extension("media:keywords", Some(Tax)),
                              Extension("media:keywords", None)>>),
                       None) >>)

FeedEmpty == Channel(<<"e">>, <<>>)

Urls == {"a", "b", "e", "x"}

\* read_feed(url).map_err(..).ok()
read_feed(url) ==
    IF url = "a" THEN Some(FeedA)
    ELSE IF url = "b" THEN Some(FeedB)
    ELSE IF url = "e" THEN Some(FeedEmpty)
    ELSE None

TermPool == { <<>>, <<"a", "r">>, <<"l", "a", "w">>, Tax }

SeqsUpTo(S, n) == UNION { [1..m -> S] : m \in 0..n }

\* the convertible items of the channels that were read, in feed order
RECURSIVE converted(_)
converted(read) ==
    IF read = <<>> THEN <<>>
    ELSE (IF is_none(Head(read)) THEN <<>>
          ELSE LET channel == unwrap(Head(read))
                   results == [i \in 1..Len(channel.items) |->
                                  from_item(channel.title, channel.items[i])]
                   oks == SelectSeq(results, LAMBDA r : r.kind = "Ok")
               IN  [i \in 1..Len(oks) |-> oks[i].value])
         \o converted(Tail(read))

\* the closure of retain without the test of an empty opt-in list
retained_without_empty_test(item, terms, operation) ==
    LET categories == IF is_some(item.categories) THEN unwrap(item.categories) ELSE <<>>
        keywords == IF is_some(item.keywords) THEN unwrap(item.keywords) ELSE <<>>
    IN  IF operation = "AND"
        THEN \A i \in 1..Len(terms) :
                 contains(categories, terms[i]) \/ contains(keywords, terms[i])
        ELSE \E i \in 1..Len(terms) :
                 contains(categories, terms[i]) \/ contains(keywords, terms[i])

\* the closure all_items.retain(..) is given
retained(item, terms, operation) ==
    LET categories == IF is_some(item.categories) THEN unwrap(item.categories) ELSE <<>>
        keywords == IF is_some(item.keywords) THEN unwrap(item.keywords) ELSE <<>>
    IN  IF terms = <<>> THEN TRUE
        ELSE IF operation = "AND"
        THEN \A i \in 1..Len(terms) :
                 contains(categories, terms[i]) \/ contains(keywords, terms[i])
        ELSE \E i \in 1..Len(terms) :
                 contains(categories, terms[i]) \/ contains(keywords, terms[i])

\* the orders slice::shuffle can leave a vector in
shuffle(s) == { [i \in 1..Len(s) |-> s[perm[i]]] : perm \in Permutations(1..Len(s)) }

InitFetch ==
    /\ root_words_file = None
    /\ ScoreIdle /\ CallIdle /\ OrderIdle /\ FeedbackIdle /\ StorageIdle
    /\ feed_urls \in SeqsUpTo(Urls, MaxFeeds)
    /\ opt_in \in SeqsUpTo(TermPool, MaxTerms)
    /\ operator \in {"AND", "OR"}
    /\ channels = [i \in 1..Len(feed_urls) |-> None]
    /\ fetched = None

\* the task spawned for a url ends: channel = read_feed(&url).await ... .ok()
ReadFeed ==
    \E i \in 1..Len(feed_urls) :
        /\ fetched = None
        /\ channels[i] = None
        /\ channels' = [channels EXCEPT ![i] = Some(read_feed(feed_urls[i]))]
        /\ UNCHANGED <<feed_urls, opt_in, operator, fetched, order_vars, feedback_vars,
                       storage_vars, root_words_file, scoring_vars, call_vars>>

\* every handle has been awaited: convert, retain, shuffle and return
FetchReturn ==
    /\ fetched = None
    /\ \A i \in 1..Len(feed_urls) : is_some(channels[i])
    /\ LET read == [i \in 1..Len(channels) |-> unwrap(channels[i])]
           items == SelectSeq(read, LAMBDA channel : is_some(channel))
       IN  IF items = <<>> THEN fetched' = Some(None)
           ELSE \E all_items \in
                       shuffle(SelectSeq(converted(read),
                                         LAMBDA item : retained(item, opt_in, operator))) :
                    fetched' = Some(Some(all_items))
    /\ UNCHANGED <<feed_urls, opt_in, operator, channels, order_vars, feedback_vars,
                   storage_vars, root_words_file, scoring_vars, call_vars>>

NextFetch == ReadFeed \/ FetchReturn

SpecFetch == InitFetch /\ [][NextFetch]_vars

\* the items fetch_news_items_opted_in converted, once every feed was read
ConvertedItems == converted([i \in 1..Len(channels) |-> unwrap(channels[i])])

\* number of the positions of s that hold x
CountIn(s, x) == Cardinality({ i \in 1..Len(s) : s[i] = x })

\* v holds the elements of w, each as often as w does
IsPermutationOf(v, w) ==
    /\ Len(v) = Len(w)
    /\ \A i \in 1..Len(w) : CountIn(v, w[i]) = CountIn(w, w[i])

\* term occurs in s at some offset
OccursIn(term, s) ==
    \E offset \in 0..Len(s) :
        /\ offset + Len(term) <= Len(s)
        /\ \A j \in 1..Len(term) : s[offset + j] = term[j]

\* term occurs in the categories or in the keywords, an absent field being ""
TermFound(term, item) ==
    \/ OccursIn(term, IF is_some(item.categories) THEN unwrap(item.categories) ELSE <<>>)
    \/ OccursIn(term, IF is_some(item.keywords) THEN unwrap(item.keywords) ELSE <<>>)

\* C15: with an empty opt-in list fetch_news_items_opted_in returns, for either
\* operator, exactly the converted items of the feeds it read: each one once
\* and unmodified, whatever its categories and keywords.
C15_EmptyOptInKeepsAll ==
    (is_some(fetched) /\ opt_in = <<>> /\ is_some(unwrap(fetched))) =>
        IsPermutationOf(unwrap(unwrap(fetched)), ConvertedItems)

\* three items, one of them without categories and keywords, came back in an
\* order that is not the order of the feeds
C15_Witness ==
    /\ is_some(fetched) /\ opt_in = <<>> /\ operator = "OR"
    /\ is_some(unwrap(fetched))
    /\ Len(unwrap(unwrap(fetched))) = 3
    /\ unwrap(unwrap(fetched))[1].link = <<"3">>
    /\ is_none(unwrap(unwrap(fetched))[2].categories)
    /\ is_none(unwrap(unwrap(fetched))[2].keywords)

\* C16: with a non-empty opt-in list the returned vector is a permutation of
\* the converted items in whose categories or keywords every term occurs
\* (operator AND), or at least one term occurs (operator OR).
C16_OptInFilter ==
    (is_some(fetched) /\ opt_in # <<>> /\ is_some(unwrap(fetched))) =>
        IsPermutationOf(
            unwrap(unwrap(fetched)),
            SelectSeq(ConvertedItems,
                      LAMBDA item :
                          IF operator = "AND"
                          THEN \A i \in 1..Len(opt_in) : TermFound(opt_in[i], item)
                          ELSE \E i \in 1..Len(opt_in) : TermFound(opt_in[i], item)))

\* under AND two of three items were retained for the terms "ar" and "law",
\* one of them for a term in its categories and the other in its keywords
C16_Witness ==
    /\ is_some(fetched) /\ operator = "AND"
    /\ opt_in = << <<"a", "r">>, <<"l", "a", "w">> >>
    /\ is_some(unwrap(fetched))
    /\ Len(ConvertedItems) = 3
    /\ Len(unwrap(unwrap(fetched))) = 2
    /\ \E i \in 1..2 : unwrap(unwrap(fetched))[i].keywords = Some(to_lowercase(Tax \o Comma \o Law))

(***************************************************************************)
(* calculate_relevance_of_newsitem and                                     *)
(* calculate_relevance_by_cosine_similarity                                *)
(***************************************************************************)
MaxRecords == 2

\* a rated item of the corpus: its title embedding and its stored relevance
Rated(link, title_embedding, rel) ==
    FeedbackRecord([Item1 EXCEPT !.link = link, !.relevance = rel], title_embedding, <<1, 1>>)

RecordPool ==
    { Rated(<<"1">>, <<1, 1>>, Some(F64_ONE \div 2)),
      Rated(<<"2">>, <<7, 1>>, Some((7 * F64_ONE) \div 10)),
      Rated(<<"3">>, <<1, 7>>, None),
      Rated(<<"4">>, <<7, 1>>, Some(0 - 2 * F64_ONE)),
      Rated(<<"5">>, <<1, 1>>, Some(INFINITY)),
      Rated(<<"6">>, <<0, 0>>, Some(3 * F64_ONE)),
      Rated(<<"7">>, <<1, 1, 1>>, Some(F64_ONE)) }

\* what the sentence embedder can return for a title and for a bag of words
TitleEmbeddingPool == { <<1, 1>>, <<7, 1>> }
BowEmbeddingPool == { <<1, 1>>, <<1, 7>>, <<0, 0>> }

\* similarity thresholds 0.8, 0.25 and 1.0
ThresholdPool == { <<4, 5>>, <<1, 4>>, <<1, 1>> }

\* publication dates: none, today, 1, 3, 4 and 10 days ago, 1 and 2 days ahead,
\* and a string that is not an RFC 2822 date
PubDatePool ==
    { None, Date(NOW), Date(NOW - 1), Date(NOW - 3), Date(NOW - 4), Date(0),
      Date(NOW + 1), Date(NOW + 2), BadDate }

InitFeedback ==
    /\ root_words_file = None
    /\ core = None /\ relevance = None
    /\ CallIdle /\ OrderIdle /\ FetchIdle /\ StorageIdle
    /\ \E pub_date \in PubDatePool : news_item = [Item1 EXCEPT !.pub_date = pub_date]
    /\ embeddings \in TitleEmbeddingPool \X BowEmbeddingPool
    /\ corpus \in SeqsUpTo(RecordPool, MaxRecords)
    /\ threshold \in ThresholdPool
    /\ title_relevance = None
    /\ bow_relevance = None
    /\ item_relevance = None

\* let title_relevance = calculate_relevance_by_cosine_similarity(&embeddings[0], ..)?
TitleRelevance ==
    /\ title_relevance = None /\ item_relevance = None
    /\ LET result == calculate_relevance_by_cosine_similarity(
                         embeddings[1], corpus, threshold[1], threshold[2], "title_embedding")
       IN  /\ title_relevance' = Some(result)
           /\ item_relevance' = IF result.kind = "Ok" THEN None ELSE Some(result)
    /\ UNCHANGED <<embeddings, corpus, threshold, bow_relevance, order_vars, fetch_vars,
                   storage_vars, root_words_file, scoring_vars, call_vars>>

\* let bow_relevance = calculate_relevance_by_cosine_similarity(&embeddings[1], ..)?
BowRelevance ==
    /\ is_some(title_relevance) /\ bow_relevance = None /\ item_relevance = None
    /\ LET result == calculate_relevance_by_cosine_similarity(
                         embeddings[2], corpus, threshold[1], threshold[2], bow_extractor)
       IN  /\ bow_relevance' = Some(result)
           /\ item_relevance' = IF result.kind = "Ok" THEN None ELSE Some(result)
    /\ UNCHANGED <<embeddings, corpus, threshold, title_relevance, order_vars, fetch_vars,
                   storage_vars, root_words_file, scoring_vars, call_vars>>

\* let mut relevance = title_relevance.max(bow_relevance); the decay; Ok(relevance)
Decay ==
    /\ is_some(title_relevance) /\ is_some(bow_relevance) /\ item_relevance = None
    /\ item_relevance' =
           Some(decayed(Max(unwrap(title_relevance).value, unwrap(bow_relevance).value),
                        news_item.pub_date))
    /\ UNCHANGED <<embeddings, corpus, threshold, title_relevance, bow_relevance, order_vars,
                   fetch_vars, storage_vars, root_words_file, scoring_vars, call_vars>>

NextFeedback == TitleRelevance \/ BowRelevance \/ Decay

SpecFeedback == InitFeedback /\ [][NextFeedback]_vars

\* the cosine similarity of a and b is strictly greater than the threshold
SimilarityAbove(a, b) ==
    LET norms2 == dot(a, a) * dot(b, b)
        scaled == dot(a, b) * threshold[2]
    IN  norms2 # 0 /\ dot(a, b) > 0 /\ scaled * scaled > threshold[1] * threshold[1] * norms2

\* the records whose title embedding is similar enough to the query
Passing(query) ==
    SelectSeq(corpus, LAMBDA record : SimilarityAbove(query, record.title_embedding))

\* the estimates computed so far, each with its query embedding
Estimates ==
    { e \in { <<embeddings[1], title_relevance>>, <<embeddings[2], bow_relevance>> } :
          is_some(e[2]) /\ unwrap(e[2]).kind = "Ok" }

\* the stored relevance of a record, 0 when there is none
KnownRelevance(record) ==
    IF is_some(record.news_item.relevance) THEN unwrap(record.news_item.relevance) ELSE 0

\* C17: calculate_relevance_by_cosine_similarity discards every record whose
\* similarity to the query is not strictly greater than the threshold: the
\* result is the one the records above the threshold alone give, and it is 0.0
\* when no record is above it or the corpus is empty.
C17_StrictThreshold ==
    \A e \in Estimates :
        /\ Passing(e[1]) = <<>> => unwrap(e[2]).value = 0
        /\ unwrap(e[2]) = calculate_relevance_by_cosine_similarity(
                              e[1], Passing(e[1]), threshold[1], threshold[2],
                              "title_embedding")

\* a record of relevance 0.7 whose similarity equals the threshold 0.8 was
\* discarded and the estimate is 0.0
C17_Witness ==
    /\ embeddings[1] = <<1, 1>> /\ threshold = <<4, 5>>
    /\ corpus = << Rated(<<"2">>, <<7, 1>>, Some((7 * F64_ONE) \div 10)) >>
    /\ title_relevance = Some(Ok(0))

\* C18: when a record is above the threshold the result is the arithmetic mean
\* of the stored relevances of the records above it, a missing relevance
\* counting as 0, and 0.0 when that mean is negative or not finite.
C18_MeanOfPassing ==
    \A e \in Estimates :
        Passing(e[1]) # <<>> =>
            LET known == [i \in 1..Len(Passing(e[1])) |-> KnownRelevance(Passing(e[1])[i])]
                n == Len(known)
                value == unwrap(e[2]).value
            IN  IF \E i \in 1..n : known[i] > F64_MAX \/ known[i] < 0 - F64_MAX
                THEN value = 0
                ELSE IF SumSeq(known) < 0 THEN value = 0
                ELSE value * n <= SumSeq(known) /\ SumSeq(known) < (value + 1) * n

\* two records of relevance 0.5 and 0.7 and of different similarity to the
\* title are above the threshold and the title estimate is 0.6
C18_Witness ==
    /\ embeddings[1] = <<1, 1>> /\ threshold = <<1, 4>>
    /\ corpus = << Rated(<<"1">>, <<1, 1>>, Some(F64_ONE \div 2)),
                   Rated(<<"2">>, <<7, 1>>, Some((7 * F64_ONE) \div 10)) >>
    /\ title_relevance = Some(Ok((6 * F64_ONE) \div 10))

\* the larger of the two estimates
PreDecay == Max(unwrap(title_relevance).value, unwrap(bow_relevance).value)

\* the call returned a relevance
Scored ==
    /\ is_some(title_relevance) /\ is_some(bow_relevance) /\ is_some(item_relevance)
    /\ unwrap(item_relevance).kind = "Ok"

\* C19: calculate_relevance_of_newsitem returns the larger of the two estimates
\* times max(1 - 0.1 * days, 0.7): 0.7 for every age of 3 days or more, never
\* less than 0.7, and the estimate itself for an item without publication date.
C19_DecayFloor ==
    Scored =>
        IF is_none(news_item.pub_date)
        THEN unwrap(item_relevance).value = PreDecay
        ELSE LET days == NOW - unwrap(news_item.pub_date).day
                 tenths == IF days >= 3 THEN 7 ELSE 10 - days
             IN  /\ tenths >= 7
                 /\ unwrap(item_relevance).value = (PreDecay * tenths) \div 10

\* an item published 10 days ago, with a title estimate of 0.6 and a lower
\* bag-of-words estimate, got the relevance 0.42
C19_Witness ==
    /\ Scored
    /\ news_item.pub_date = Date(0)
    /\ unwrap(title_relevance).value = (6 * F64_ONE) \div 10
    /\ unwrap(bow_relevance).value < unwrap(title_relevance).value
    /\ unwrap(item_relevance).value = (42 * F64_ONE) \div 100

\* C20: for an item published in the future the relevance returned is not
\* greater than the larger of the two estimates.
C20_FutureDateNotAmplified ==
    (Scored /\ is_some(news_item.pub_date) /\ unwrap(news_item.pub_date).day > NOW) =>
        unwrap(item_relevance).value <= PreDecay

\* some record's title embedding has another length than the query
Mismatched(query) ==
    \E i \in 1..Len(corpus) : Len(corpus[i].title_embedding) # Len(query)

\* C24: when the title embedding of some record has a length different from
\* the query's, calculate_relevance_by_cosine_similarity returns no relevance
\* (it panics), whatever the other records are, and so does
\* calculate_relevance_of_newsitem.
C24_MismatchAborts ==
    /\ (is_some(title_relevance) /\ Mismatched(embeddings[1]))
           => unwrap(title_relevance) = Panic
    /\ (is_some(bow_relevance) /\ Mismatched(embeddings[2]))
           => unwrap(bow_relevance) = Panic
    /\ (is_some(item_relevance) /\ (Mismatched(embeddings[1]) \/ Mismatched(embeddings[2])))
           => unwrap(item_relevance) = Panic

\* a record the query is similar to, followed by one of three components
C24_Witness ==
    /\ Len(corpus) = 2
    /\ corpus[1].title_embedding = embeddings[1]
    /\ Len(corpus[2].title_embedding) = 3
    /\ title_relevance = Some(Panic)
    /\ item_relevance = Some(Panic)

\* the records with the bag-of-words embedding of record i replaced
WithBowEmbedding(records, i, bow_embedding) ==
    [records EXCEPT ![i].bow_embedding = bow_embedding]

\* C26: the value calculate_relevance_of_newsitem returns does not change
\* when the bag-of-words embedding of any record is replaced by another one.
C26_BowEmbeddingUnused ==
    is_some(item_relevance) =>
        \A i \in 1..Len(corpus), bow_embedding \in BowEmbeddingPool :
            calculate_relevance_of_newsitem(news_item, embeddings,
                                            WithBowEmbedding(corpus, i, bow_embedding),
                                            threshold[1], threshold[2])
                = unwrap(item_relevance)

\* a returned relevance that is not 0, from two records whose bag-of-words
\* embedding is not the one the bag-of-words query is similar to
C26_Witness ==
    /\ is_some(item_relevance)
    /\ unwrap(item_relevance).kind = "Ok"
    /\ unwrap(item_relevance).value > 0
    /\ Len(corpus) = 2
    /\ embeddings[2] = <<1, 7>>

(***************************************************************************)
(* PipelineError to text and back: as_str, as_string, from_str             *)
(* (src/common.rs)                                                         *)
(***************************************************************************)
MaxMsg == 2

EmptyStringName == <<"E", "m", "p", "t", "y", "S", "t", "r", "i", "n", "g">>
ParsingErrorName == <<"P", "a", "r", "s", "i", "n", "g", "E", "r", "r", "o", "r">>
NoContentName == <<"N", "o", "C", "o", "n", "t", "e", "n", "t">>
NetworkErrorName == <<"N", "e", "t", "w", "o", "r", "k", "E", "r", "r", "o", "r">>
UnknownErrorName == <<"U", "n", "k", "n", "o", "w", "n", "E", "r", "r", "o", "r">>
NoneName == <<"N", "o", "n", "e">>

as_str(e) ==
    CASE e[1] = "EmptyString" -> EmptyStringName
      [] e[1] = "ParsingError" -> ParsingErrorName
      [] e[1] = "NoContent" -> NoContentName
      [] e[1] = "NetworkError" -> NetworkErrorName
      [] e[1] = "UnknownError" -> UnknownErrorName

\* format!("ParsingError({})", e)
as_string(e) ==
    CASE e[1] = "EmptyString" -> EmptyStringName
      [] e[1] = "ParsingError" -> ParsingErrorName \o <<"(">> \o e[2] \o <<")">>
      [] e[1] = "NoContent" -> NoContentName
      [] e[1] = "NetworkError" -> NetworkErrorName \o <<"(">> \o e[2] \o <<")">>
      [] e[1] = "UnknownError" -> UnknownErrorName

\* the text between name( and the last ) of s
inner(s, name) == SubSeq(s, Len(name) + 2, Len(s) - 1)

\* s matches name\((.*)\) from its start to its end; a dot matches any
\* character but a line feed
wrapped(s, name) ==
    /\ Len(s) >= Len(name) + 2
    /\ SubSeq(s, 1, Len(name) + 1) = name \o <<"(">>
    /\ s[Len(s)] = ")"
    /\ \A i \in 1..Len(inner(s, name)) : inner(s, name)[i] # "\n"

\* re.captures(error) for
\* ^(ParsingError\((.*)\)|NetworkError\((.*)\)|EmptyString|NoContent)$ :
\* None, or the groups 1, 2 and 3; group 1 encloses the whole alternation
captures(s) ==
    IF wrapped(s, ParsingErrorName)
    THEN Some(<<Some(s), Some(inner(s, ParsingErrorName)), None>>)
    ELSE IF wrapped(s, NetworkErrorName)
    THEN Some(<<Some(s), None, Some(inner(s, NetworkErrorName))>>)
    ELSE IF s = EmptyStringName \/ s = NoContentName
    THEN Some(<<Some(s), None, None>>)
    ELSE None

from_str(error) ==
    LET caps == captures(error)
    IN  IF is_none(caps) THEN Err
        ELSE LET group == unwrap(caps)
             IN  IF group[1] = Some(EmptyStringName) THEN Ok(EmptyString)
                 ELSE IF group[1] = Some(NoContentName) THEN Ok(NoContent)
                 ELSE IF group[1] = Some(ParsingErrorName)
                 THEN IF is_none(group[2]) THEN Err
                      ELSE Ok(ParsingError(unwrap(group[2])))
                 ELSE IF group[1] = Some(NetworkErrorName)
                 THEN IF is_none(group[3]) THEN Err
                      ELSE Ok(NetworkError(unwrap(group[3])))
                 ELSE Err

MsgChars == { "a", "(", ")", "\n" }
MsgPool == SeqsUpTo(MsgChars, MaxMsg)
PipelineErrorPool ==
    { EmptyString, NoContent, UnknownError }
        \cup { ParsingError(m) : m \in MsgPool } \cup { NetworkError(m) : m \in MsgPool }

InitError ==
    /\ root_words_file = None
    /\ pipeline_error \in { Some(e) : e \in PipelineErrorPool }
    /\ error_string = None
    /\ parsed = None
    /\ ScoreIdle /\ CallIdle /\ OrderIdle /\ FetchIdle /\ FeedbackIdle
    /\ ContentIdle /\ CsvIdle /\ DbIdle

other_vars == <<root_words_file, scoring_vars, call_vars, order_vars, fetch_vars, feedback_vars>>

AsString ==
    /\ error_string = None
    /\ error_string' = Some(as_string(unwrap(pipeline_error)))
    /\ UNCHANGED <<other_vars, pipeline_error, parsed, content_vars, csv_vars, db_vars>>

FromStr ==
    /\ is_some(error_string)
    /\ parsed = None
    /\ parsed' = Some(from_str(unwrap(error_string)))
    /\ UNCHANGED <<other_vars, pipeline_error, error_string, content_vars, csv_vars, db_vars>>

NextError == AsString \/ FromStr

SpecError == InitError /\ [][NextError]_vars

\* C21: every PipelineError converted with as_string and parsed back with
\* from_str gives Ok of the same variant with the same payload.
C21_RoundTrip ==
    is_some(parsed) => unwrap(parsed) = Ok(unwrap(pipeline_error))

(***************************************************************************)
(* The bag of words of an item: NewsItem::get_bow (src/common.rs)          *)
(***************************************************************************)
BowFieldPool ==
    { None, Some(<<>>), Some(War), Some(to_lowercase(War)), Some(Tax),
      Some(War \o Space \o Tax), Some(Tax \o Space \o Tax), Some(War \o Comma \o Tax),
      Some(Law \o Comma \o Space \o War) }

InitBow ==
    /\ root_words_file = None
    /\ \E ca \in BowFieldPool, kw \in BowFieldPool :
           news_item = NewsItem(<<"l">>, War, <<>>, Al, None, ca, kw, None, None, None)
    /\ core = None /\ relevance = None
    /\ CallIdle /\ OrderIdle /\ FetchIdle /\ FeedbackIdle
    /\ ErrorIdle /\ ContentIdle /\ CsvIdle /\ DbIdle

GetBow ==
    /\ bag_of_words = None
    /\ \E text \in get_bow(news_item) : bag_of_words' = Some(text)
    /\ UNCHANGED <<other_vars, error_vars, response, fill_pc, csv_vars, db_vars>>

NextBow == GetBow

SpecBow == InitBow /\ [][NextBow]_vars

\* the lowercased words of an optional field, a word being a maximal run of
\* characters other than white space
Words(field) ==
    IF is_none(field) THEN {}
    ELSE LET w == split_whitespace(to_lowercase(unwrap(field)))
         IN  { w[i] : i \in 1..Len(w) }

\* C23: the string get_bow returns is made of the lowercased words of the
\* keywords and of the categories, every distinct word exactly once, joined
\* by single spaces; it is empty when the fields have no word.
C23_DistinctTokensOnce ==
    is_some(bag_of_words) =>
        LET expected == Words(news_item.keywords) \cup Words(news_item.categories)
            pieces == split(unwrap(bag_of_words), " ")
        IN  IF expected = {} THEN unwrap(bag_of_words) = <<>>
            ELSE /\ { pieces[i] : i \in 1..Len(pieces) } = expected
                 /\ \A i, j \in 1..Len(pieces) : pieces[i] = pieces[j] => i = j

(***************************************************************************)
(* Fetching the body of one item: clean_content and                        *)
(* fill_news_item_content (src/lib.rs)                                     *)
(***************************************************************************)
Failure(e) == [kind |-> "Err", error |-> e]

\* The html of the model is text with the characters < and > standing for
\* markup; plain text rendering keeps the characters that are not markup.
Markup == { "<", ">" }
IsText(c) == c \notin Markup
html_to_text(html) == SelectSeq(html, IsText)

\* render_error: Option of the message of the error of string_from_read
clean_content(channel, html, render_error) ==
    IF html = <<>> THEN Failure(EmptyString)
    ELSE IF is_some(render_error) THEN Failure(ParsingError(unwrap(render_error)))
    ELSE Ok(html_to_text(html))

\* What the network gives for the link of the item: get is the error of
\* reqwest::get or None, status the status line of the response, text the
\* error of Response::text or None, html the body, render_error the error
\* of the plain text rendering or None.
Response(get, status, text, html, render_error) ==
    [get |-> get, status |-> status, text |-> text, html |-> html,
     render_error |-> render_error]

HtmlPool ==
    { <<>>, <<"<", ">">>, War, <<"<", ">">> \o War \o Space \o Tax, Law \o <<"<", ">">> }
StatusPool == { "200 OK", "404 Not Found" }
ResponsePool ==
    { Response(Some(<<"x">>), "200 OK", None, <<>>, None) }
        \cup { Response(None, st, Some(<<"y">>), <<>>, None) : st \in StatusPool }
        \cup { Response(None, p[1], None, p[2], p[3]) :
                   p \in StatusPool \X HtmlPool \X { None, Some(<<"z">>) } }

\* fill_news_item_content leaving the body text of a failed request alone
fill_keeping_content(item, resp) ==
    IF is_some(resp.get)
    THEN [item EXCEPT !.error = Some(NetworkError(unwrap(resp.get)))]
    ELSE IF is_some(resp.text)
    THEN [item EXCEPT !.error = Some(ParsingError(unwrap(resp.text)))]
    ELSE LET cleaned == clean_content(item.channel, resp.html, resp.render_error)
         IN  IF cleaned.kind = "Ok"
             THEN IF cleaned.value # <<>>
                  THEN [item EXCEPT !.clean_content = Some(cleaned.value)]
                  ELSE [item EXCEPT !.error = Some(NoContent)]
             ELSE [item EXCEPT !.error = Some(cleaned.error)]

fill_news_item_content(item, resp) ==
    IF is_some(resp.get)
    THEN [item EXCEPT !.clean_content = None,
                      !.error = Some(NetworkError(unwrap(resp.get)))]
    ELSE IF is_some(resp.text)
    THEN [item EXCEPT !.clean_content = None,
                      !.error = Some(ParsingError(unwrap(resp.text)))]
    ELSE LET cleaned == clean_content(item.channel, resp.html, resp.render_error)
         IN  IF cleaned.kind = "Ok"
             THEN IF cleaned.value # <<>>
                  THEN [item EXCEPT !.clean_content = Some(cleaned.value)]
                  ELSE [item EXCEPT !.clean_content = None, !.error = Some(NoContent)]
             ELSE [item EXCEPT !.clean_content = None, !.error = Some(cleaned.error)]

InitFill ==
    /\ root_words_file = None
    /\ \E cc \in { None, Some(Law) }, er \in { None, Some(NoContent) } :
           news_item = NewsItem(<<"l">>, War, <<>>, Al, None, None, None, cc, er, None)
    /\ core = None /\ relevance = None
    /\ bag_of_words = None
    /\ response \in { Some(r) : r \in ResponsePool }
    /\ fill_pc = "called"
    /\ CallIdle /\ OrderIdle /\ FetchIdle /\ FeedbackIdle
    /\ ErrorIdle /\ CsvIdle /\ DbIdle

FillNewsItemContent ==
    /\ fill_pc = "called"
    /\ news_item' = fill_news_item_content(news_item, unwrap(response))
    /\ fill_pc' = "returned"
    /\ UNCHANGED <<root_words_file, core, relevance, call_vars, order_vars, fetch_vars,
                   feedback_vars, error_vars, bag_of_words, response, csv_vars, db_vars>>

NextFill == FillNewsItemContent

SpecFill == InitFill /\ [][NextFill]_vars

\* the request, the decoding of the body, the cleaning or the emptiness of
\* the cleaned text made the fetch fail
FetchFailed(resp) ==
    \/ is_some(resp.get)
    \/ is_some(resp.text)
    \/ resp.html = <<>>
    \/ is_some(resp.render_error)
    \/ \A i \in 1..Len(resp.html) : resp.html[i] \in Markup

\* C22: when fill_news_item_content has returned, a fetch that failed (no
\* response, undecodable body, cleaning error, empty cleaned text) leaves the
\* error set and clean_content None, and a fetch that succeeded leaves
\* clean_content Some of a text that is not empty.
C22_FillOutcome ==
    fill_pc = "returned" =>
        IF FetchFailed(unwrap(response))
        THEN is_some(news_item.error) /\ news_item.clean_content = None
        ELSE is_some(news_item.clean_content) /\ unwrap(news_item.clean_content) # <<>>

\* a request that failed: the item has the network error and no body text
C22_Witness ==
    /\ fill_pc = "returned"
    /\ is_some(unwrap(response).get)
    /\ news_item.error = Some(NetworkError(<<"x">>))
    /\ news_item.clean_content = None

(***************************************************************************)
(* Feedback records in a CSV file: write_feedback_records_to_csv           *)
(* (src/storage.rs)                                                        *)
(***************************************************************************)
MaxCalls == 3
MaxBatch == 2

\* A row is the sequence of its cells.  The model keeps the first three of
\* the fourteen columns; the others are written by the same write_record.
HEADER ==
    << <<"C", "h", "a", "n", "n", "e", "l">>, <<"T", "i", "t", "l", "e">>,
       <<"L", "i", "n", "k">> >>

csv_row(record) == <<record.news_item.channel, record.news_item.title, record.news_item.link>>

\* for record in records { writer.write_record(..) }
csv_rows(records) == [i \in 1..Len(records) |-> csv_row(records[i])]

\* a header written by every call
header_always(file) == <<HEADER>>

\* the rows of the file when the writer is built: those of the file that
\* exists, opened to append, or the header row of the file just created
opened(file) == IF is_some(file) THEN unwrap(file) ELSE <<HEADER>>

write_feedback_records_to_csv(records, file) == Some(opened(file) \o csv_rows(records))

CsvRecordPool == { feedback_records[1], feedback_records[2] }

InitCsv ==
    /\ root_words_file = None
    /\ csv_file = None
    /\ csv_calls = <<>>
    /\ ScoreIdle /\ CallIdle /\ OrderIdle /\ FetchIdle /\ FeedbackIdle
    /\ ErrorIdle /\ ContentIdle /\ DbIdle

WriteFeedbackRecordsToCsv ==
    /\ Len(csv_calls) < MaxCalls
    /\ \E records \in SeqsUpTo(CsvRecordPool, MaxBatch) :
           /\ csv_file' = write_feedback_records_to_csv(records, csv_file)
           /\ csv_calls' = Append(csv_calls, records)
    /\ UNCHANGED <<other_vars, error_vars, content_vars, db_vars>>

NextCsv == WriteFeedbackRecordsToCsv

SpecCsv == InitCsv /\ [][NextCsv]_vars

\* the elements of the sequences of a sequence, in order
RECURSIVE Flatten(_)
Flatten(seqs) ==
    IF seqs = <<>> THEN <<>> ELSE Flatten(SubSeq(seqs, 1, Len(seqs) - 1)) \o seqs[Len(seqs)]

\* C25: starting without the file, after any sequence of calls the file
\* holds one header row, the first, and then one row for every record of
\* every call, in call order: a call on the file that exists appends its
\* rows and nothing else.
C25_OneHeaderThenRows ==
    /\ csv_file = None <=> csv_calls = <<>>
    /\ csv_calls # <<>> => unwrap(csv_file) = <<HEADER>> \o csv_rows(Flatten(csv_calls))

\* three calls, the second and the third on the file that exists, the first
\* without a record
C25_Witness ==
    /\ Len(csv_calls) = 3
    /\ csv_calls[1] = <<>>
    /\ Len(csv_calls[2]) = 2
    /\ Len(csv_calls[3]) = 1
    /\ Len(unwrap(csv_file)) = 4

(***************************************************************************)
(* Items in the database: NewsItem::binds, insert, query_all               *)
(* (src/storage.rs) and insert_news_items (src/lib.rs)                     *)
(***************************************************************************)
MaxInserts == 2
MaxItemsPerInsert == 2
\* the items handed to insert_news_items by all the calls together
MaxItemsInserted == 3

unwrap_or(o, default) == IF is_some(o) THEN unwrap(o) ELSE default

\* the values bound to the statement: the row the insert stores
binds(item) ==
    [ channel |-> item.channel, title |-> item.title, link |-> item.link,
      description |-> item.description, creators |-> item.creators,
      pub_date |-> unwrap_or(item.pub_date, <<>>),
      categories |-> unwrap_or(item.categories, <<>>),
      keywords |-> unwrap_or(item.keywords, <<>>),
      clean_content |-> unwrap_or(item.clean_content, <<>>),
      error |-> IF is_some(item.error) THEN as_str(unwrap(item.error)) ELSE NoneName ]

\* link TEXT NOT NULL UNIQUE: the statement fails when a row has the link
violates_unique(rows, item) == \E i \in 1..Len(rows) : rows[i].link = item.link

\* NewsItem::insert on the rows of the table: the Result and the rows after
insert(item, rows) ==
    IF violates_unique(rows, item)
    THEN <<Failure(<<"UNIQUE constraint failed">>), rows>>
    ELSE <<Ok(<<>>), Append(rows, binds(item))>>

\* the count when every item is counted
counted_always(count, result) == count + 1

\* match news_item.insert(connection) { Err(err) => log, _ => count += 1 }
counted(count, result) == IF result.kind = "Err" THEN count ELSE count + 1

\* insert_news_items on the rows of the table: <<count, rows after>>
RECURSIVE insert_news_items(_, _)
insert_news_items(items, rows) ==
    IF items = <<>> THEN <<0, rows>>
    ELSE LET before == insert_news_items(SubSeq(items, 1, Len(items) - 1), rows)
             last == insert(items[Len(items)], before[2])
         IN  <<counted(before[1], last[1]), last[2]>>

\* the error column read back
read_error(text) ==
    IF text = NoneName THEN None
    ELSE IF from_str(text).kind = "Ok" THEN Some(from_str(text).value)
    ELSE Some(UnknownError)

\* a text column that was bound is never NULL: it reads as Some
query_all(rows) ==
    [i \in 1..Len(rows) |->
        [ channel |-> rows[i].channel, title |-> rows[i].title, link |-> rows[i].link,
          description |-> rows[i].description, creators |-> rows[i].creators,
          pub_date |-> Some(rows[i].pub_date), categories |-> Some(rows[i].categories),
          keywords |-> Some(rows[i].keywords),
          clean_content |-> Some(rows[i].clean_content),
          error |-> read_error(rows[i].error), relevance |-> None ]]

Stored(link, title, error) ==
    NewsItem(link, title, <<>>, Al, None, Some(War), None, None, error, None)

DbItemPool ==
    { Stored(<<"1">>, War, None), Stored(<<"1">>, Tax, Some(EmptyString)),
      Stored(<<"1">>, War, Some(NetworkError(<<"x">>))),
      Stored(<<"2">>, War, Some(NoContent)), Stored(<<"2">>, Tax, Some(UnknownError)),
      Stored(<<"2">>, War, Some(ParsingError(<<"a">>))),
      Stored(<<"3">>, Law, None), Stored(<<"3">>, Law, Some(NetworkError(<<>>))) }

\* the connection is open and create_table has run
InitDb ==
    /\ root_words_file = None
    /\ table = <<>>
    /\ batches = <<>>
    /\ counts = <<>>
    /\ queried = None
    /\ ScoreIdle /\ CallIdle /\ OrderIdle /\ FetchIdle /\ FeedbackIdle
    /\ ErrorIdle /\ ContentIdle /\ CsvIdle

InsertNewsItems ==
    /\ Len(batches) < MaxInserts
    /\ \E items \in SeqsUpTo(DbItemPool, MaxItemsPerInsert) :
           LET result == insert_news_items(items, table)
           IN  /\ Len(Flatten(batches)) + Len(items) <= MaxItemsInserted
               /\ table' = result[2]
               /\ counts' = Append(counts, result[1])
               /\ batches' = Append(batches, items)
    /\ queried' = None
    /\ UNCHANGED <<other_vars, error_vars, content_vars, csv_vars>>

QueryAll ==
    /\ queried = None
    /\ table # <<>>
    /\ queried' = Some(query_all(table))
    /\ UNCHANGED <<other_vars, error_vars, content_vars, csv_vars, table, batches, counts>>

NextDb == InsertNewsItems \/ QueryAll

SpecDb == InitDb /\ [][NextDb]_vars

\* the items of a sequence that are the first with their link, in order
RECURSIVE FirstOfLink(_)
FirstOfLink(items) ==
    IF items = <<>> THEN <<>>
    ELSE LET before == SubSeq(items, 1, Len(items) - 1)
             item == items[Len(items)]
         IN  IF \E i \in 1..Len(before) : before[i].link = item.link
             THEN FirstOfLink(before)
             ELSE Append(FirstOfLink(before), item)

\* the items the first c calls have stored
StoredBy(c) == FirstOfLink(Flatten(SubSeq(batches, 1, c)))

\* C29: an item stored with insert and read back with query_all carries the
\* error it was stored with: None stays None and every variant comes back as
\* the same variant with the same payload.
C29_ErrorRoundTrip ==
    is_some(queried) =>
        /\ Len(unwrap(queried)) = Len(StoredBy(Len(batches)))
        /\ \A i \in 1..Len(unwrap(queried)) :
              unwrap(queried)[i].error = StoredBy(Len(batches))[i].error

\* C30: after any sequence of insert_news_items calls the table has at most
\* one row per link, every call has returned the number of rows it added,
\* and an item whose link is in the table is neither stored nor counted while
\* the items after it in the batch are.
C30_OneRowPerLink ==
    /\ \A i, j \in 1..Len(table) : table[i].link = table[j].link => i = j
    /\ table = [i \in 1..Len(StoredBy(Len(batches))) |-> binds(StoredBy(Len(batches))[i])]
    /\ \A c \in 1..Len(counts) : counts[c] = Len(StoredBy(c)) - Len(StoredBy(c - 1))

\* a second call whose first item has a link of the table and whose second
\* item is new: one row added, one counted
C30_Witness ==
    /\ Len(batches) = 2
    /\ Len(batches[1]) = 1
    /\ Len(batches[2]) = 2
    /\ batches[2][1].link = batches[1][1].link
    /\ batches[2][1] # batches[1][1]
    /\ batches[2][2].link # batches[1][1].link
    /\ counts = <<1, 1>>
    /\ Len(table) = 2

====
